---- MODULE Spec2Model ----
(***************************************************************************)
(* Model of the filtered tree copier of zsnip (src/src/fs.rs): the pattern *)
(* matcher is_interested_file, the CopierBuilder and Copier::run with its  *)
(* rayon worker pool, over a small POSIX-like filesystem.                  *)
(*                                                                         *)
(* A path is a record [abs, comps, trail]: whether the string starts with  *)
(* the separator, its Normal components, and whether it ends with a        *)
(* separator (std::path::Path ignores the trailing separator when it       *)
(* iterates components, the operating system does not when it opens).      *)
(* The filesystem maps the component sequence of an absolute path to a     *)
(* node, a directory or a regular file with its bytes.                     *)
(***************************************************************************)
EXTENDS Integers, Sequences, FiniteSets, TLC

VARIABLES
    fs,         \* the filesystem: absolute component sequence -> node
    mt,         \* one call of is_interested_file: its arguments and result
    builder,    \* CopierBuilder.copier, the Copier being assembled
    calls,      \* the arguments of the add / ipat / epat calls made so far
    copier,     \* the Copier returned by build(), or NoCopier
    run         \* the state of Copier::run: position, walker, worker tasks

vars == <<fs, mt, builder, calls, copier, run>>

----------------------------------------------------------------------------
(* Bounds of the model.                                                    *)

MaxPatterns == 2    \* longest pattern list handed to is_interested_file
MaxSources == 2     \* most add() calls on one builder
MaxPatCalls == 1    \* most ipat() plus epat() calls on one builder
NumThreads == 2     \* worker threads of the rayon pool
MaxPathLen == 5     \* most components of a path the filesystem accepts
MaxRuns == 2        \* run() calls made on the built Copier

----------------------------------------------------------------------------
(* Strings.  A name or a pattern is a TLA+ string; Chars gives its         *)
(* characters, which is what glob matching works on.                       *)

Chars ==
    [ s \in {"w", "src", "alt", "dst", "sub", "out", "a.txt", "b.log", "c.txt",
             "renamed.txt", "*.txt", "*.log", "a*", "/abs", "[" } |->
        CASE s = "w"           -> <<"w">>
          [] s = "src"         -> <<"s","r","c">>
          [] s = "alt"         -> <<"a","l","t">>
          [] s = "dst"         -> <<"d","s","t">>
          [] s = "sub"         -> <<"s","u","b">>
          [] s = "out"         -> <<"o","u","t">>
          [] s = "a.txt"       -> <<"a",".","t","x","t">>
          [] s = "b.log"       -> <<"b",".","l","o","g">>
          [] s = "c.txt"       -> <<"c",".","t","x","t">>
          [] s = "renamed.txt" -> <<"r","e","n","a","m","e","d",".","t","x","t">>
          [] s = "*.txt"       -> <<"*",".","t","x","t">>
          [] s = "*.log"       -> <<"*",".","l","o","g">>
          [] s = "a*"          -> <<"a","*">>
          [] s = "/abs"        -> <<"/","a","b","s">>
          [] s = "["           -> <<"[">> ]

----------------------------------------------------------------------------
(* std::path                                                               *)

Path(abs, comps) == [abs |-> abs, comps |-> comps, trail |-> FALSE]

Rel(comps) == Path(FALSE, comps)

Abs(comps) == Path(TRUE, comps)

IsPrefix(s, t) == Len(s) <= Len(t) /\ SubSeq(t, 1, Len(s)) = s

\* Path::is_absolute
is_absolute(p) == p.abs

\* Path::strip_prefix compares components (the root directory is one), so a
\* relative base is never a prefix of an absolute path and conversely.
StripOk(p, base) == p.abs = base.abs /\ IsPrefix(base.comps, p.comps)

strip_prefix(p, base) ==
    Rel(SubSeq(p.comps, Len(base.comps) + 1, Len(p.comps)))

\* Path::join is PathBuf::push: an absolute argument replaces the path,
\* otherwise a separator is appended when the path does not end with one, and
\* then the argument: joining the empty path leaves a trailing separator.
join(p, q) ==
    IF q.abs THEN q
    ELSE IF q.comps = <<>> THEN
        IF p.comps = <<>> THEN p ELSE [p EXCEPT !.trail = TRUE]
    ELSE [abs |-> p.abs, comps |-> p.comps \o q.comps, trail |-> q.trail]

\* Path::parent: the path without its last component; none for "/" and "".
HasParent(p) == p.comps # <<>>

parent(p) == Path(p.abs, SubSeq(p.comps, 1, Len(p.comps) - 1))

RECURSIVE JoinChars(_)
JoinChars(comps) ==
    IF comps = <<>> THEN <<>>
    ELSE IF Len(comps) = 1 THEN Chars[comps[1]]
    ELSE Chars[comps[1]] \o <<"/">> \o JoinChars(Tail(comps))

\* Path::to_str: the characters of the path.
to_str(p) ==
    (IF p.abs THEN <<"/">> ELSE <<>>) \o JoinChars(p.comps)
        \o (IF p.trail THEN <<"/">> ELSE <<>>)

----------------------------------------------------------------------------
(* The filesystem                                                          *)

Cwd == <<"w">>

Dir == [kind |-> "dir", data |-> ""]

File(d) == [kind |-> "file", data |-> d]

\* The absolute component sequence the operating system resolves p to.
Resolve(p) == IF p.abs THEN p.comps ELSE Cwd \o p.comps

\* The empty string names nothing: stat("") fails.
IsEmpty(p) == ~p.abs /\ p.comps = <<>>

\* Path::exists; a trailing separator asks for a directory.
exists(f, p) ==
    /\ ~IsEmpty(p)
    /\ Resolve(p) \in DOMAIN f
    /\ p.trail => f[Resolve(p)].kind = "dir"

\* Path::is_file
is_file(f, p) ==
    /\ ~IsEmpty(p)
    /\ Resolve(p) \in DOMAIN f
    /\ f[Resolve(p)].kind = "file"
    /\ ~p.trail

\* Path::is_dir
is_dir(f, p) ==
    /\ ~IsEmpty(p)
    /\ Resolve(p) \in DOMAIN f
    /\ f[Resolve(p)].kind = "dir"

Prefixes(r) == {SubSeq(r, 1, n) : n \in 0..Len(r)}

\* std::fs::create_dir_all does nothing for the empty path; it fails when a
\* component of the path is a regular file or the path is longer than the
\* system accepts; it tolerates directories that exist, whoever made them.
CreateDirAllOk(f, p) ==
    \/ IsEmpty(p)
    \/ /\ Len(Resolve(p)) <= MaxPathLen
       /\ \A q \in Prefixes(Resolve(p)) : q \in DOMAIN f => f[q].kind = "dir"

create_dir_all(f, p) ==
    IF IsEmpty(p) THEN f
    ELSE [q \in DOMAIN f \cup Prefixes(Resolve(p)) |->
            IF q \in DOMAIN f THEN f[q] ELSE Dir]

\* std::fs::copy(from, to): from must be a regular file; to is opened for
\* writing with create and truncate, which fails on a path that ends with a
\* separator (EISDIR or ENOTDIR), on a directory, under a parent that is no
\* directory, and on a path that is too long.
\* The directory the operating system looks the last component of p up in.
InDir(f, p) ==
    /\ Resolve(p) # <<>>
    /\ SubSeq(Resolve(p), 1, Len(Resolve(p)) - 1) \in DOMAIN f
    /\ f[SubSeq(Resolve(p), 1, Len(Resolve(p)) - 1)].kind = "dir"

\* A copy that refuses to write over a file that exists.
CopyOk_NoOverwrite(f, from, to) ==
    /\ is_file(f, from)
    /\ ~to.trail
    /\ ~IsEmpty(to)
    /\ Len(Resolve(to)) <= MaxPathLen
    /\ InDir(f, to)
    /\ Resolve(to) \notin DOMAIN f

CopyOk(f, from, to) ==
    /\ is_file(f, from)
    /\ ~to.trail
    /\ ~IsEmpty(to)
    /\ Len(Resolve(to)) <= MaxPathLen
    /\ InDir(f, to)
    /\ ~is_dir(f, to)

fs_copy(f, from, to) ==
    [q \in DOMAIN f \cup {Resolve(to)} |->
        IF q = Resolve(to) THEN File(f[Resolve(from)].data) ELSE f[q]]

----------------------------------------------------------------------------
(* glob::Pattern, for the patterns of the model: literal characters, `?`,  *)
(* `*` and the opening bracket.  No pattern of the model holds a closing   *)
(* bracket, so an opening bracket never starts a valid range and           *)
(* Pattern::new fails on it.                                               *)

PatternParses(pat) == \A i \in 1..Len(Chars[pat]) : Chars[pat][i] # "["

\* Pattern::matches_with under the options of is_interested_file
\* (require_literal_separator and require_literal_leading_dot are false, and
\* case_sensitive is true off Windows): `*` and `?` match the separator too,
\* and the whole string must be matched.
RECURSIVE MatchesFrom(_, _, _, _)
MatchesFrom(p, s, i, j) ==
    IF i > Len(p) THEN j > Len(s)
    ELSE IF p[i] = "*" THEN
        \E k \in j..(Len(s) + 1) : MatchesFrom(p, s, i + 1, k)
    ELSE
        /\ j <= Len(s)
        /\ p[i] = "?" \/ p[i] = s[j]
        /\ MatchesFrom(p, s, i + 1, j + 1)

matches_path_with(pat, path) == MatchesFrom(Chars[pat], to_str(path), 1, 1)

\* Path::new(pat).is_absolute()
PatIsAbsolute(pat) == Chars[pat] # <<>> /\ Chars[pat][1] = "/"

----------------------------------------------------------------------------
(* is_interested_file                                                      *)

\* The path the patterns are matched against (fs.rs 241-248).
relative_file_path(root, file_path) ==
    IF is_absolute(file_path) THEN strip_prefix(file_path, root) ELSE file_path

\* One pattern of a list is evaluated and matches (fs.rs 257-267, 273-283).
PatHits(pat, rel) ==
    /\ ~PatIsAbsolute(pat)
    /\ PatternParses(pat)
    /\ matches_path_with(pat, rel)

AnyHit(pats, rel) == \E i \in 1..Len(pats) : PatHits(pats[i], rel)

is_interested_file(f, root, file_path, include_patterns, exclude_patterns) ==
    IF ~is_file(f, file_path) THEN FALSE
    ELSE IF is_absolute(file_path) /\ ~StripOk(file_path, root) THEN FALSE
    ELSE IF exclude_patterns # <<>> THEN
        ~AnyHit(exclude_patterns, relative_file_path(root, file_path))
    ELSE IF include_patterns # <<>> THEN
        AnyHit(include_patterns, relative_file_path(root, file_path))
    ELSE TRUE

----------------------------------------------------------------------------
(* The worlds the model starts from.                                       *)

\* src/{a.txt, b.log, sub/c.txt} and alt/a.txt under the working directory.
Tree0 ==
    (<<>> :> Dir) @@ (<<"w">> :> Dir)
    @@ (<<"w", "src">> :> Dir)
    @@ (<<"w", "src", "a.txt">> :> File("A"))
    @@ (<<"w", "src", "b.log">> :> File("B"))
    @@ (<<"w", "src", "sub">> :> Dir)
    @@ (<<"w", "src", "sub", "c.txt">> :> File("C"))
    @@ (<<"w", "alt">> :> Dir)
    @@ (<<"w", "alt", "a.txt">> :> File("A2"))

\* The same with a destination that exists and holds the regular files `sub`
\* and `renamed.txt`.
Tree1 ==
    Tree0 @@ (<<"w", "dst">> :> Dir) @@ (<<"w", "dst", "sub">> :> File("Z"))
    @@ (<<"w", "dst", "renamed.txt">> :> File("Z"))

InitialTrees == {Tree0, Tree1}

SrcChoices ==
    { Rel(<<"src">>), Abs(<<"w", "src">>), Rel(<<"alt">>),
      Rel(<<"src", "a.txt">>) }

\* A destination inside the source tree alt.
NestedDst == Rel(<<"alt", "out">>)

DstChoices == { Rel(<<"dst">>), Rel(<<"dst", "renamed.txt">>), NestedDst }

\* The sources a builder made for destination dst is given: with the nested
\* destination, the tree that holds it and a single file.
SrcChoicesFor(dst) ==
    IF dst = NestedDst THEN { Rel(<<"alt">>), Rel(<<"src", "a.txt">>) }
    ELSE SrcChoices

PatChoices == {"*.txt", "*.log", "a*"}

\* Arguments of a direct call of is_interested_file.
MatchRoots == { Rel(<<"src">>), Abs(<<"w", "src">>) }

MatchFiles ==
    { Rel(<<"src", "a.txt">>), Abs(<<"w", "src", "a.txt">>),
      Rel(<<"src", "b.log">>), Abs(<<"w", "src", "sub", "c.txt">>),
      Rel(<<"src", "sub">>), Abs(<<"w", "alt", "a.txt">>) }

MatchPats == {"*.txt", "*.log", "a*", "/abs", "["}

RECURSIVE SeqsUpTo(_, _)
SeqsUpTo(S, n) ==
    IF n = 0 THEN {<<>>}
    ELSE SeqsUpTo(S, n - 1)
         \cup {Append(q, x) : q \in {r \in SeqsUpTo(S, n - 1) : Len(r) = n - 1},
                              x \in S}

NoCopier == [none |-> TRUE]

NoCall == [root |-> Rel(<<>>), file |-> Rel(<<>>), inc |-> <<>>, exc |-> <<>>,
           called |-> FALSE, res |-> FALSE]

\* Copier::run before its first call.
IdleRun ==
    [ pc |-> "idle", n |-> 0, i |-> 0, must |-> {}, yielded |-> {},
      tasks |-> {}, err |-> FALSE, result |-> "none", failedAt |-> 0,
      dispatched |-> {}, copied |-> {}, startTree |-> <<>>,
      firstTree |-> <<>>, firstResult |-> "none" ]

----------------------------------------------------------------------------
(* A direct call of is_interested_file.                                    *)

InitMatch ==
    /\ fs = Tree0
    /\ mt \in [ root : MatchRoots, file : MatchFiles,
                inc : SeqsUpTo(MatchPats, MaxPatterns),
                exc : SeqsUpTo(MatchPats, MaxPatterns),
                called : {FALSE}, res : {FALSE} ]
    /\ builder = NoCopier
    /\ calls = NoCopier
    /\ copier = NoCopier
    /\ run = IdleRun

MatchCall ==
    /\ ~mt.called
    /\ mt' = [mt EXCEPT !.called = TRUE, !.res =
                is_interested_file(fs, mt.root, mt.file, mt.inc, mt.exc)]
    /\ UNCHANGED <<fs, builder, calls, copier, run>>

NextMatch == MatchCall

SpecMatch == InitMatch /\ [][NextMatch]_vars

----------------------------------------------------------------------------
(* CopierBuilder                                                           *)

\* CopierBuilder::new
new(dst) == [src |-> <<>>, dst |-> dst, includes |-> <<>>, excludes |-> <<>>]

\* CopierBuilder::add
add(b, src) == [b EXCEPT !.src = Append(@, src)]

\* CopierBuilder::ipat
ipat(b, pat) == [b EXCEPT !.includes = Append(@, pat)]

\* CopierBuilder::epat pushes onto copier.includes (fs.rs 196).
epat(b, pat) == [b EXCEPT !.includes = Append(@, pat)]

\* CopierBuilder::build
build(b) == b

Init ==
    /\ fs \in InitialTrees
    /\ mt = NoCall
    /\ \E dst \in DstChoices :
        /\ builder = new(dst)
        /\ calls = [dst |-> dst, adds |-> <<>>, ipats |-> <<>>, epats |-> <<>>]
    /\ copier = NoCopier
    /\ run = IdleRun

Add(src) ==
    /\ copier = NoCopier
    /\ Len(calls.adds) < MaxSources
    /\ builder' = add(builder, src)
    /\ calls' = [calls EXCEPT !.adds = Append(@, src)]
    /\ UNCHANGED <<fs, mt, copier, run>>

Ipat(pat) ==
    /\ copier = NoCopier
    /\ Len(calls.ipats) + Len(calls.epats) < MaxPatCalls
    /\ builder' = ipat(builder, pat)
    /\ calls' = [calls EXCEPT !.ipats = Append(@, pat)]
    /\ UNCHANGED <<fs, mt, copier, run>>

Epat(pat) ==
    /\ copier = NoCopier
    /\ Len(calls.ipats) + Len(calls.epats) < MaxPatCalls
    /\ builder' = epat(builder, pat)
    /\ calls' = [calls EXCEPT !.epats = Append(@, pat)]
    /\ UNCHANGED <<fs, mt, copier, run>>

Build ==
    /\ copier = NoCopier
    /\ copier' = build(builder)
    /\ UNCHANGED <<fs, mt, builder, calls, run>>

----------------------------------------------------------------------------
(* Copier::run                                                             *)

\* What walkdir::WalkDir::new(src), flattened and filtered to regular files,
\* can yield on filesystem f: the root itself when it is a file, every regular
\* file below it when it is a directory, nothing when it does not exist (the
\* error entry is dropped by flatten).  An entry's path is the root as it was
\* written, joined with the entry's place below it.
WalkFiles(f, src) ==
    IF is_file(f, src) THEN {src}
    ELSE IF ~is_dir(f, src) THEN {}
    ELSE { Path(src.abs,
                src.comps \o SubSeq(q, Len(Resolve(src)) + 1, Len(q))) :
             q \in { r \in DOMAIN f : /\ IsPrefix(Resolve(src), r)
                                      /\ f[r].kind = "file" } }

\* fs.rs 111-115, for a Copier with at least one source.
should_create_dst(f, c) ==
    IF Len(c.src) = 1 THEN ~is_file(f, c.src[1]) ELSE TRUE

\* The file lands directly in the destination, its directories dropped.
dest_file_Flat(c, t) ==
    join(c.dst,
         Rel(IF strip_prefix(t.entry, c.src[t.src]).comps = <<>> THEN <<>>
             ELSE <<t.entry.comps[Len(t.entry.comps)]>>))

\* fs.rs 139-141: the file a task writes.
dest_file(c, t) == join(c.dst, strip_prefix(t.entry, c.src[t.src]))

\* fs.rs 139-153: the task gets as far as the copy.
MkdirOk(f, c, t) ==
    /\ StripOk(t.entry, c.src[t.src])
    /\ HasParent(dest_file(c, t))
    /\ \/ exists(f, parent(dest_file(c, t)))
       \/ CreateDirAllOk(f, parent(dest_file(c, t)))

\* The step the task is at returns an error from the closure.
StepFails(f, c, t) ==
    IF t.pc = "mkdir" THEN ~MkdirOk(f, c, t)
    ELSE ~CopyOk(f, t.entry, dest_file(c, t))

\* A run() call that starts now, after r.n earlier calls.
Fresh(r, f) ==
    [IdleRun EXCEPT !.n = r.n, !.startTree = f, !.firstTree = r.firstTree,
                    !.firstResult = r.firstResult]

\* run() returns res on filesystem f.
Returned(r, f, res) ==
    [r EXCEPT !.pc = "returned", !.n = @ + 1, !.i = 0, !.must = {},
              !.yielded = {}, !.err = FALSE, !.result = res,
              !.firstTree = IF r.n = 0 THEN f ELSE @,
              !.firstResult = IF r.n = 0 THEN res ELSE @]

CanCall ==
    /\ copier # NoCopier
    /\ \/ run.pc = "idle"
       \/ run.pc = "returned" /\ run.n < MaxRuns

\* try_for_each is a blocking parallel terminal: it returns when every item
\* the workers took from the iterator has been processed.
Joined_NoWait(r) == TRUE

Joined(r) == r.tasks = {}

\* The `?` after try_for_each (fs.rs 162): an error of a task leaves run().
Propagate_Swallow(r) == FALSE

Propagate(r) == r.err

\* The walker has nothing it must still yield.  It yields every file that was
\* under the source when the walk began (must); a file that appears under the
\* source while it is walked is yielded or not, as the directory reads fall.
WalkDone(r) == r.must \subseteq r.yielded

\* fs.rs 112: no source, nothing to do.
RunEmpty ==
    /\ CanCall
    /\ Len(copier.src) = 0
    /\ run' = Returned(Fresh(run, fs), fs, "ok")
    /\ UNCHANGED <<fs, mt, builder, calls, copier>>

\* fs.rs 116-118: mkdir of the destination fails.
RunMkdirFail ==
    /\ CanCall
    /\ Len(copier.src) > 0
    /\ should_create_dst(fs, copier)
    /\ ~CreateDirAllOk(fs, copier.dst)
    /\ run' = Returned(Fresh(run, fs), fs, "err")
    /\ UNCHANGED <<fs, mt, builder, calls, copier>>

\* fs.rs 111-122: the destination is made unless the only source is a file,
\* and the walk of the first source starts.
RunBegin ==
    /\ CanCall
    /\ Len(copier.src) > 0
    /\ should_create_dst(fs, copier) => CreateDirAllOk(fs, copier.dst)
    /\ fs' = IF should_create_dst(fs, copier)
             THEN create_dir_all(fs, copier.dst) ELSE fs
    /\ run' = [Fresh(run, fs) EXCEPT !.pc = "walk", !.i = 1,
                                     !.must = WalkFiles(fs', copier.src[1])]
    /\ UNCHANGED <<mt, builder, calls, copier>>

\* What a worker records when it takes entry e of source i from the walker.
Taken(c, i, e, sel) ==
    [ src |-> i, entry |-> e,
      matched |-> relative_file_path(c.src[i], e), selected |-> sel ]

\* fs.rs 122-137: a free worker takes the next entry of the walk and the
\* matcher selects it.  No entry is taken once a task has failed.
Dispatch ==
    /\ run.pc = "walk"
    /\ ~run.err
    /\ Cardinality(run.tasks) < NumThreads
    /\ \E e \in WalkFiles(fs, copier.src[run.i]) \ run.yielded :
        /\ is_interested_file(fs, copier.src[run.i], e,
                              copier.includes, copier.excludes)
        /\ run' = [run EXCEPT
                    !.yielded = @ \cup {e},
                    !.tasks = @ \cup {[src |-> run.i, entry |-> e,
                                       pc |-> "mkdir"]},
                    !.dispatched = @ \cup {Taken(copier, run.i, e, TRUE)}]
    /\ UNCHANGED <<fs, mt, builder, calls, copier>>

\* fs.rs 130-137: the matcher rejects the entry, the closure returns Ok.
Skip ==
    /\ run.pc = "walk"
    /\ ~run.err
    /\ Cardinality(run.tasks) < NumThreads
    /\ \E e \in WalkFiles(fs, copier.src[run.i]) \ run.yielded :
        /\ ~is_interested_file(fs, copier.src[run.i], e,
                               copier.includes, copier.excludes)
        /\ run' = [run EXCEPT
                    !.yielded = @ \cup {e},
                    !.dispatched = @ \cup {Taken(copier, run.i, e, FALSE)}]
    /\ UNCHANGED <<fs, mt, builder, calls, copier>>

\* fs.rs 139-153: the parent directory of the destination file is there or
\* is made.
TaskMkdir ==
    /\ \E t \in run.tasks :
        /\ t.pc = "mkdir"
        /\ MkdirOk(fs, copier, t)
        /\ fs' = IF exists(fs, parent(dest_file(copier, t))) THEN fs
                 ELSE create_dir_all(fs, parent(dest_file(copier, t)))
        /\ run' = [run EXCEPT
                    !.tasks = (@ \ {t}) \cup {[t EXCEPT !.pc = "copy"]}]
    /\ UNCHANGED <<mt, builder, calls, copier>>

\* fs.rs 155-161: the bytes are copied and the task is done.  The copy is one
\* step: the tasks of a source write different files, and the sources follow
\* one another.
TaskCopy ==
    /\ \E t \in run.tasks :
        /\ t.pc = "copy"
        /\ CopyOk(fs, t.entry, dest_file(copier, t))
        /\ fs' = fs_copy(fs, t.entry, dest_file(copier, t))
        /\ run' = [run EXCEPT
                    !.tasks = @ \ {t},
                    !.copied = @ \cup {Resolve(dest_file(copier, t))}]
    /\ UNCHANGED <<mt, builder, calls, copier>>

\* fs.rs 139-159: a step of the task fails and the closure returns the error.
TaskFail ==
    /\ \E t \in run.tasks :
        /\ StepFails(fs, copier, t)
        /\ run' = [run EXCEPT
                    !.tasks = @ \ {t},
                    !.err = TRUE,
                    !.failedAt = IF @ = 0 THEN run.i ELSE @]
    /\ UNCHANGED <<fs, mt, builder, calls, copier>>

\* fs.rs 162: try_for_each returned an error and run() returns it.
TryForEachErr ==
    /\ run.pc = "walk"
    /\ Joined(run)
    /\ Propagate(run)
    /\ run' = Returned(run, fs, "err")
    /\ UNCHANGED <<fs, mt, builder, calls, copier>>

\* fs.rs 119: the walk of this source is over, the next source starts.
NextSource ==
    /\ run.pc = "walk"
    /\ Joined(run)
    /\ ~Propagate(run)
    /\ WalkDone(run)
    /\ run.i < Len(copier.src)
    /\ run' = [run EXCEPT !.i = @ + 1, !.yielded = {}, !.err = FALSE,
                          !.must = WalkFiles(fs, copier.src[run.i + 1])]
    /\ UNCHANGED <<fs, mt, builder, calls, copier>>

\* fs.rs 165: every source is done.
RunOk ==
    /\ run.pc = "walk"
    /\ Joined(run)
    /\ ~Propagate(run)
    /\ WalkDone(run)
    /\ run.i = Len(copier.src)
    /\ run' = Returned(run, fs, "ok")
    /\ UNCHANGED <<fs, mt, builder, calls, copier>>

Next ==
    \/ \E src \in SrcChoicesFor(calls.dst) : Add(src)
    \/ \E pat \in PatChoices : Ipat(pat)
    \/ \E pat \in PatChoices : Epat(pat)
    \/ Build
    \/ RunEmpty
    \/ RunMkdirFail
    \/ RunBegin
    \/ Dispatch
    \/ Skip
    \/ TaskMkdir
    \/ TaskCopy
    \/ TaskFail
    \/ TryForEachErr
    \/ NextSource
    \/ RunOk

Spec == Init /\ [][Next]_vars

----------------------------------------------------------------------------
(* What the claims speak of.                                               *)

\* The file lies under the root on disk, however the two were written.
UnderRoot(root, file) == IsPrefix(Resolve(root), Resolve(file))

\* The path of the file relative to the root.
RootRel(root, file) ==
    Rel(SubSeq(Resolve(file), Len(Resolve(root)) + 1, Len(Resolve(file))))

\* The path written as an absolute one.
AbsOf(p) == Abs(Resolve(p))

Insert(q, k, x) == SubSeq(q, 1, k - 1) \o <<x>> \o SubSeq(q, k, Len(q))

\* The entries of source k that the matcher, called as run() calls it, selects.
Sel(f, c, k) ==
    { e \in WalkFiles(f, c.src[k]) :
        is_interested_file(f, c.src[k], e, c.includes, c.excludes) }

\* Destination joined with the entry's path relative to its source root.
DestOf(c, k, e) == Resolve(c.dst) \o RootRel(c.src[k], e).comps

\* Every place under the destination, and the regular files among them.
DstNodes(f, c) == {q \in DOMAIN f : IsPrefix(Resolve(c.dst), q)}

DstFiles(f, c) == {q \in DstNodes(f, c) : f[q].kind = "file"}

DstTree(f, c) == [q \in DstNodes(f, c) |-> f[q]]

RECURSIVE MatchedCount(_, _, _)
MatchedCount(f, c, k) ==
    IF k = 0 THEN 0
    ELSE Cardinality(Sel(f, c, k)) + MatchedCount(f, c, k - 1)

\* The destination is not inside a source tree, nor a source inside it.
Disjoint(c) ==
    \A k \in 1..Len(c.src) :
        /\ ~IsPrefix(Resolve(c.src[k]), Resolve(c.dst))
        /\ ~IsPrefix(Resolve(c.dst), Resolve(c.src[k]))

Succeeded == copier # NoCopier /\ run.pc = "returned" /\ run.result = "ok"

\* The paths the matched files are to be found at.
DestPaths(f, c) ==
    UNION { {DestOf(c, k, e) : e \in Sel(f, c, k)} : k \in 1..Len(c.src) }

\* The last source that has a selected file for destination path q.
LastSource(f, c, q) ==
    CHOOSE k \in 1..Len(c.src) :
        /\ \E e \in Sel(f, c, k) : DestOf(c, k, e) = q
        /\ \A j \in (k + 1)..Len(c.src) :
            \A e \in Sel(f, c, j) : DestOf(c, j, e) # q

----------------------------------------------------------------------------
(* C1: is_interested_file, exclude precedence.  For an existing regular    *)
(* file under root, a non-empty exclude list decides alone: the result is  *)
(* false when some non-absolute, parsable exclude pattern matches the      *)
(* root-relative path and true otherwise, whatever the include list.       *)
C1_ExcludePrecedence ==
    (/\ mt.called
     /\ is_file(fs, mt.file)
     /\ UnderRoot(mt.root, mt.file)
     /\ mt.exc # <<>>)
    => /\ mt.res = ~AnyHit(mt.exc, RootRel(mt.root, mt.file))
       /\ \A inc \in SeqsUpTo(MatchPats, MaxPatterns) :
            is_interested_file(fs, mt.root, mt.file, inc, mt.exc) = mt.res

(* C2: is_interested_file, absolute patterns are inert.  Inserting an      *)
(* absolute-path string at any position of the include list or of the      *)
(* exclude list gives the result of the call without it.                   *)
C2_AbsolutePatternsInert ==
    mt.called
    => /\ \A k \in 1..(Len(mt.inc) + 1) :
            is_interested_file(fs, mt.root, mt.file,
                               Insert(mt.inc, k, "/abs"), mt.exc) = mt.res
       /\ \A k \in 1..(Len(mt.exc) + 1) :
            is_interested_file(fs, mt.root, mt.file,
                               mt.inc, Insert(mt.exc, k, "/abs")) = mt.res

(* C3: CopierBuilder wiring.  build() returns the destination given to     *)
(* new, the add arguments as sources, the ipat arguments as include        *)
(* patterns and the epat arguments as exclude patterns, each in call order.*)
C3_BuilderWiring ==
    copier # NoCopier
    => /\ copier.dst = calls.dst
       /\ copier.src = calls.adds
       /\ copier.includes = calls.ipats
       /\ copier.excludes = calls.epats

(* C4: copy completeness as claimed, in its most favourable case (the      *)
(* destination held no file when run() started and lies outside every      *)
(* source tree): after a successful run() every selected file of every     *)
(* source is at destination joined with its relative path with the bytes   *)
(* of its source, and the destination holds as many files as were matched. *)
C4_CopyCompleteness ==
    (/\ Succeeded
     /\ Disjoint(copier)
     /\ DstFiles(run.startTree, copier) = {})
    => /\ \A k \in 1..Len(copier.src) : \A e \in Sel(fs, copier, k) :
            /\ DestOf(copier, k, e) \in DstFiles(fs, copier)
            /\ fs[DestOf(copier, k, e)].data = fs[Resolve(e)].data
       /\ Cardinality(DstFiles(fs, copier))
            = MatchedCount(fs, copier, Len(copier.src))

(* C4, amended: after a successful run() whose destination lies outside    *)
(* every source tree, every selected file of every source has a file at    *)
(* destination joined with its relative path, holding the bytes of the     *)
(* selected file of the last source that has that relative path; and the   *)
(* files the destination gained in the run are at those paths only.        *)
C4_CopyCompletenessAmended ==
    (Succeeded /\ Disjoint(copier))
    => /\ \A q \in DestPaths(fs, copier) :
            /\ q \in DstFiles(fs, copier)
            /\ \E e \in Sel(fs, copier, LastSource(fs, copier, q)) :
                /\ DestOf(copier, LastSource(fs, copier, q), e) = q
                /\ fs[q].data = fs[Resolve(e)].data
       /\ DstFiles(fs, copier) \ DstFiles(run.startTree, copier)
            \subseteq DestPaths(fs, copier)

\* Two sources had a selected file for the same destination path, with
\* different bytes, and run() succeeded.
C4_Witness ==
    /\ Succeeded
    /\ Disjoint(copier)
    /\ Len(copier.src) = 2
    /\ \E e1 \in Sel(fs, copier, 1) : \E e2 \in Sel(fs, copier, 2) :
        /\ DestOf(copier, 1, e1) = DestOf(copier, 2, e2)
        /\ fs[Resolve(e1)].data # fs[Resolve(e2)].data
    /\ Cardinality(run.copied) >= 2

(* C5: copy exclusivity through the public builder.  After a successful    *)
(* run() no file whose root-relative path matches a pattern given to epat  *)
(* was put under the destination; and for src/{a.txt, b.log, sub/c.txt}    *)
(* with epat("*.log") and no ipat, dst/a.txt and dst/sub/c.txt exist and   *)
(* dst/b.log does not.                                                     *)
C5_CopyExclusivity ==
    Succeeded
    => /\ \A k \in 1..Len(copier.src) :
            \A e \in WalkFiles(run.startTree, copier.src[k]) :
                AnyHit(calls.epats, RootRel(copier.src[k], e))
                => DestOf(copier, k, e) \notin
                     DstFiles(fs, copier) \ DstFiles(run.startTree, copier)
       /\ (/\ calls.adds = <<Rel(<<"src">>)>>
           /\ calls.ipats = <<>>
           /\ calls.epats = <<"*.log">>
           /\ calls.dst = Rel(<<"dst">>)
           /\ run.startTree = Tree0)
          => /\ is_file(fs, Rel(<<"dst", "a.txt">>))
             /\ is_file(fs, Rel(<<"dst", "sub", "c.txt">>))
             /\ ~exists(fs, Rel(<<"dst", "b.log">>))

(* C6: idempotent re-run as claimed, for a first run that succeeded: after *)
(* the second run() the destination tree is the tree the first run left,   *)
(* and the second run succeeds, wherever the destination lies.             *)
C6_IdempotentRerun ==
    (/\ copier # NoCopier
     /\ run.pc = "returned"
     /\ run.n >= 2
     /\ run.firstResult = "ok")
    => /\ DstTree(fs, copier) = DstTree(run.firstTree, copier)
       /\ run.result = "ok"

(* C6, amended: for a Copier whose destination lies outside every source   *)
(* tree and whose first run() succeeded, a further run() succeeds and      *)
(* leaves the destination tree as the first run left it.                   *)
C6_IdempotentRerunAmended ==
    (/\ copier # NoCopier
     /\ run.pc = "returned"
     /\ run.n >= 2
     /\ run.firstResult = "ok"
     /\ Disjoint(copier))
    => /\ DstTree(fs, copier) = DstTree(run.firstTree, copier)
       /\ run.result = "ok"

\* A second run() that wrote files over the ones the first run left.
C6_Witness ==
    /\ Succeeded
    /\ run.n = 2
    /\ run.firstResult = "ok"
    /\ Disjoint(copier)
    /\ Cardinality(run.copied) >= 2

(* C7: single-file source.  When the only source is a regular file and no  *)
(* pattern is configured, run() succeeds, the destination is not made a    *)
(* directory, and the bytes of the source are at the destination path.     *)
C7_SingleFileSource ==
    (/\ copier # NoCopier
     /\ run.pc = "returned"
     /\ Len(copier.src) = 1
     /\ is_file(run.startTree, copier.src[1])
     /\ copier.includes = <<>>
     /\ copier.excludes = <<>>)
    => /\ run.result = "ok"
       /\ is_file(fs, copier.dst)
       /\ fs[Resolve(copier.dst)].data = fs[Resolve(copier.src[1])].data

(* C8: failure propagation.  When a copy step failed while source i was    *)
(* processed, run() returns a failure, no entry of a later source was ever *)
(* handed to a worker, and every file copied in this run is still a file   *)
(* of the destination.                                                     *)
C8_FailurePropagation ==
    /\ (run.pc = "returned" /\ run.failedAt # 0) => run.result = "err"
    /\ run.failedAt # 0 => \A d \in run.dispatched : d.src <= run.failedAt
    /\ \A q \in run.copied : q \in DOMAIN fs /\ fs[q].kind = "file"

\* run() returned the failure of the first of two sources, with files of it
\* already copied.
C8_Witness ==
    /\ run.pc = "returned"
    /\ run.result = "err"
    /\ run.failedAt = 1
    /\ Len(copier.src) = 2
    /\ run.copied # {}

(* C9: task lifetime and ordering.  Every task in flight belongs to the    *)
(* source run() is processing, so the tasks of a source have all finished  *)
(* before the next source starts and before run() returns; and the         *)
(* filesystem does not change while run() has returned.                    *)
C9_TaskLifetime ==
    /\ [](\A t \in run.tasks : run.pc = "walk" /\ t.src = run.i)
    /\ [][(run.pc = "returned" /\ run'.pc = "returned") => fs' = fs]_vars

\* Two tasks of the second source run side by side.
C9_Witness ==
    /\ run.pc = "walk"
    /\ run.i = 2
    /\ Cardinality(run.tasks) = 2
    /\ run.copied # {}

(* C10: patterns are matched against the root-relative path.  For every    *)
(* entry a worker took, the path the patterns were matched against is the  *)
(* entry's path relative to its source root, and whether the entry was     *)
(* selected is what it is when the source is written as an absolute path.  *)
C10_RootRelativeMatching ==
    \A d \in run.dispatched :
        /\ (copier.includes # <<>> \/ copier.excludes # <<>>)
            => d.matched = RootRel(copier.src[d.src], d.entry)
        /\ d.selected =
            is_interested_file(fs, AbsOf(copier.src[d.src]), AbsOf(d.entry),
                               copier.includes, copier.excludes)

====
